---------------------------- MODULE Spec2Model ----------------------------
(***************************************************************************)
(* Model of etl_report_transport.py: the shipment validation pipeline.     *)
(* The Row Store (a pandas DataFrame) is a sequence of rows, each row a    *)
(* function from column name to a cell.  Text is kept as a sequence of     *)
(* one-character strings so that strip / upper / lower / split / parse     *)
(* are computed the way the library calls compute them.                    *)
(***************************************************************************)
EXTENDS Integers, Sequences, FiniteSets, TLC

VARIABLES
    df,             \* the Row Store threaded through main
    pc,             \* position of main (or of the harness of a unit specification)
    errors,         \* validator outputs gathered so far: sequence of [domain, errors]
    all_errors,     \* the Error Report handed to enforce_policy (dict items in order)
    critical_found, \* enforce_policy's list of (domain, error_type, count)
    log,            \* records appended to the log file, in order
    exc,            \* the exception in flight / raised out of main, or NoExc
    prev,           \* cleaner harness: the Row Store before the last application
    applied,        \* cleaner harness: names of the cleaners applied so far
    mask,           \* build_error harness: the boolean mask
    built           \* build_error harness: the defect returned

vars == <<df, pc, errors, all_errors, critical_found, log, exc, prev, applied, mask, built>>

---------------------------------------------------------------------------
(* Bounds of the checked input space.                                      *)
MaxRows == 3
MaxMaskRows == 5
MaxApply == 2

---------------------------------------------------------------------------
(* Text literals.                                                          *)
User1 == <<"o","v","e","r","w","e","i","g","h","t","_","o","p","s","_","1","@","c","o","m","p","a","n","y",".","c","o","m">>
User2 == <<"o","v","e","r","w","e","i","g","h","t","_","o","p","s","_","2","@","c","o","m","p","a","n","y",".","c","o","m">>
User3 == <<"o","v","e","r","w","e","i","g","h","t","_","o","p","s","_","3","@","c","o","m","p","a","n","y",".","c","o","m">>
User4 == <<"o","v","e","r","w","e","i","g","h","t","_","o","p","s","_","4","@","c","o","m","p","a","n","y",".","c","o","m">>
sBooked == <<"B","o","o","k","e","d">>
sInTransit == <<"I","n"," ","T","r","a","n","s","i","t">>
sCancelled == <<"C","a","n","c","e","l","l","e","d">>
sNanText == <<"n","a","n">>
inRefBlank == <<" ">>
inWeightOk == <<"1",",","2","0","0">>
inWeightHeavy == <<"4","9",",","5","0","0">>
inWeightLimit == <<"4","9",",","0","0","0">>
inWeightBad == <<"a","b","c">>
inCreatorPlain == <<"b","o","b","@","c","o","m","p","a","n","y",".","c","o","m">>
inCreatorExempt == <<" ","O","v","e","r","w","e","i","g","h","t","_","O","p","s","_","1","@","C","o","m","p","a","n","y",".","c","o","m"," ">>
inDateBad == <<"u","n","k","n","o","w","n">>
inStateTX == <<"T","X">>
inStateON == <<"O","N">>
inStatePaddedLower == <<" ","c","a"," ">>
inStateUnknown == <<"Z","Z">>
inStateLong == <<"T","E","X">>
inName == <<"A","c","m","e"," ">>
inShipOk == <<"0","1","/","1","0","/","2","0","2","4"," ","-"," ","0","1","/","1","5","/","2","0","2","4">>
inShipIso == <<"2","0","2","4","-","0","1","-","1","0"," ","-"," ","2","0","2","4","-","0","1","-","0","5">>
inShipReversed == <<"0","1","/","1","0","/","2","0","2","4"," ","-"," ","0","1","/","0","5","/","2","0","2","4">>
inRangeNoDash == <<"T","B","D">>
inDeliveryOk == <<"0","1","/","2","0","/","2","0","2","4"," ","-"," ","0","1","/","2","5","/","2","0","2","4">>
inDeliveryEarly == <<"0","1","/","0","5","/","2","0","2","4"," ","-"," ","0","1","/","0","8","/","2","0","2","4">>
us_states ==
    { <<"A","L">>, <<"A","K">>, <<"A","Z">>, <<"A","R">>, <<"C","A">>,
      <<"C","O">>, <<"C","T">>, <<"D","E">>, <<"F","L">>, <<"G","A">>,
      <<"H","I">>, <<"I","D">>, <<"I","L">>, <<"I","N">>, <<"I","A">>,
      <<"K","S">>, <<"K","Y">>, <<"L","A">>, <<"M","E">>, <<"M","D">>,
      <<"M","A">>, <<"M","I">>, <<"M","N">>, <<"M","S">>, <<"M","O">>,
      <<"M","T">>, <<"N","E">>, <<"N","V">>, <<"N","H">>, <<"N","J">>,
      <<"N","M">>, <<"N","Y">>, <<"N","C">>, <<"N","D">>, <<"O","H">>,
      <<"O","K">>, <<"O","R">>, <<"P","A">>, <<"R","I">>, <<"S","C">>,
      <<"S","D">>, <<"T","N">>, <<"T","X">>, <<"U","T">>, <<"V","T">>,
      <<"V","A">>, <<"W","A">>, <<"W","V">>, <<"W","I">>, <<"W","Y">> }
canadian_provinces ==
    { <<"A","B">>, <<"B","C">>, <<"M","B">>, <<"N","B">>, <<"N","L">>,
      <<"N","S">>, <<"O","N">>, <<"P","E">>, <<"Q","C">>, <<"S","K">>,
      <<"N","T">>, <<"N","U">>, <<"Y","T">> }
UpperChars == <<"A","B","C","D","E","F","G","H","I","J","K","L","M","N","O","P","Q","R","S","T","U","V","W","X","Y","Z">>
LowerChars == <<"a","b","c","d","e","f","g","h","i","j","k","l","m","n","o","p","q","r","s","t","u","v","w","x","y","z">>
DigitChars == <<"0","1","2","3","4","5","6","7","8","9">>

---------------------------------------------------------------------------
(* Cells.  Every cell has the same three fields so cells compare freely.   *)
(* "nan" stands for every missing value (NaN, None, NaT); "absent" for a   *)
(* column the Row Store does not have yet.                                 *)
NaN == [t |-> "nan", s |-> <<>>, n |-> 0]
Absent == [t |-> "absent", s |-> <<>>, n |-> 0]
Str(s) == [t |-> "str", s |-> s, n |-> 0]
Num(n) == [t |-> "num", s |-> <<>>, n |-> n]
Date(d) == [t |-> "date", s |-> <<>>, n |-> d]

isnull(c) == c.t = "nan"
notnull(c) == ~isnull(c)

Rows(d) == 1..Len(d)
Column(d, col) == [i \in Rows(d) |-> d[i][col]]
SetColumn(d, col, cells) == [i \in Rows(d) |-> [d[i] EXCEPT ![col] = cells[i]]]

---------------------------------------------------------------------------
(* Character and text operations (Python str methods).                     *)
IndexIn(chars, c) == CHOOSE i \in 1..Len(chars) : chars[i] = c
IsIn(chars, c) == \E i \in 1..Len(chars) : chars[i] = c
UpperChar(c) == IF IsIn(LowerChars, c) THEN UpperChars[IndexIn(LowerChars, c)] ELSE c
LowerChar(c) == IF IsIn(UpperChars, c) THEN LowerChars[IndexIn(UpperChars, c)] ELSE c
IsDigit(c) == IsIn(DigitChars, c)
DigitValue(c) == IndexIn(DigitChars, c) - 1

RECURSIVE LStrip(_)
LStrip(s) == IF s # <<>> /\ Head(s) = " " THEN LStrip(Tail(s)) ELSE s
RECURSIVE RStrip(_)
RStrip(s) == IF s # <<>> /\ s[Len(s)] = " " THEN RStrip(SubSeq(s, 1, Len(s) - 1)) ELSE s
Strip(s) == RStrip(LStrip(s))
Upper(s) == [i \in 1..Len(s) |-> UpperChar(s[i])]
Lower(s) == [i \in 1..Len(s) |-> LowerChar(s[i])]

RECURSIVE Remove(_, _)
Remove(s, c) ==
    IF s = <<>> THEN <<>>
    ELSE IF Head(s) = c THEN Remove(Tail(s), c)
    ELSE <<Head(s)>> \o Remove(Tail(s), c)

\* s.split(c): the parts between the occurrences of c (always at least one part)
RECURSIVE Split(_, _)
Split(s, c) ==
    IF ~IsIn(s, c) THEN <<s>>
    ELSE LET k == CHOOSE i \in 1..Len(s) : s[i] = c /\ \A j \in 1..(i - 1) : s[j] # c
         IN  <<SubSeq(s, 1, k - 1)>> \o Split(SubSeq(s, k + 1, Len(s)), c)

AllDigits(s) == s # <<>> /\ \A i \in 1..Len(s) : IsDigit(s[i])
RECURSIVE DigitsToInt(_)
DigitsToInt(s) ==
    IF s = <<>> THEN 0 ELSE 10 * DigitsToInt(SubSeq(s, 1, Len(s) - 1)) + DigitValue(s[Len(s)])
RECURSIVE IntToDigits(_)
IntToDigits(n) ==
    IF n < 10 THEN <<DigitChars[n + 1]>> ELSE IntToDigits(n \div 10) \o <<DigitChars[(n % 10) + 1]>>

---------------------------------------------------------------------------
(* pandas element operations.                                              *)

\* Series.str.<method>: text cells are transformed, every other cell gives NaN
str_strip(c) == IF c.t = "str" THEN Str(Strip(c.s)) ELSE NaN
str_upper(c) == IF c.t = "str" THEN Str(Upper(c.s)) ELSE NaN
str_lower(c) == IF c.t = "str" THEN Str(Lower(c.s)) ELSE NaN
str_replace(c, ch) == IF c.t = "str" THEN Str(Remove(c.s, ch)) ELSE NaN

\* Series.str.len(): the length, or -1 standing for NaN (never equal to a length)
str_len(c) == IF c.t = "str" THEN Len(c.s) ELSE -1

\* Series.astype(str) on one element; float64 numbers print with ".0"
astype_str(c, isFloat) ==
    CASE c.t = "str" -> c
      [] c.t = "num" -> Str((IF c.n < 0 THEN <<"-">> ELSE <<>>)
                            \o IntToDigits(IF c.n < 0 THEN -c.n ELSE c.n)
                            \o (IF isFloat THEN <<".", "0">> ELSE <<>>))
      [] OTHER -> Str(sNanText)

\* the dtype of a loaded or cleaned column decides whether .str exists:
\* a column holding no text at all is float64 and has no .str accessor
HasStrAccessor(d, col) == \E i \in Rows(d) : d[i][col].t = "str"
IsFloatColumn(d, col) ==
    /\ \A i \in Rows(d) : d[i][col].t \in {"num", "nan"}
    /\ \E j \in Rows(d) : d[j][col].t = "nan"

\* pd.to_numeric(errors="coerce") on one text element.  Weights are whole
\* numbers in the checked inputs; a fraction of zeros is accepted.
to_numeric(c) ==
    IF c.t # "str" THEN (IF c.t = "num" THEN c ELSE NaN)
    ELSE LET neg == c.s # <<>> /\ Head(c.s) = "-"
             body == IF neg THEN Tail(c.s) ELSE c.s
             parts == Split(body, ".")
             whole == parts[1]
         IN  IF AllDigits(whole) /\
                (Len(parts) = 1 \/ (Len(parts) = 2 /\ \A i \in 1..Len(parts[2]) : parts[2][i] = "0"))
             THEN Num(IF neg THEN -DigitsToInt(whole) ELSE DigitsToInt(whole))
             ELSE NaN

\* dates are numbers yyyymmdd, which order as the dates do
MkDate(y, m, d) == y * 10000 + m * 100 + d
IsLeap(y) == (y % 4 = 0 /\ y % 100 # 0) \/ y % 400 = 0
DaysIn(y, m) ==
    IF m = 2 THEN (IF IsLeap(y) THEN 29 ELSE 28)
    ELSE IF m \in {4, 6, 9, 11} THEN 30 ELSE 31
ValidDate(y, m, d) ==
    /\ y >= 1678 /\ y <= 2261          \* datetime64[ns] bounds; outside is coerced to NaT
    /\ m >= 1 /\ m <= 12
    /\ d >= 1 /\ d <= DaysIn(y, m)
CheckedDate(y, m, d) == IF ValidDate(y, m, d) THEN Date(MkDate(y, m, d)) ELSE NaN

\* the date text forms the parser is modelled for: YYYY-MM-DD, MM/DD/YYYY
\* and a bare year YYYY (first of January); anything else is not a date
ParseDate(s) ==
    IF Len(s) = 10 /\ s[5] = "-" /\ s[8] = "-" /\ AllDigits(SubSeq(s, 1, 4))
       /\ AllDigits(SubSeq(s, 6, 7)) /\ AllDigits(SubSeq(s, 9, 10))
    THEN CheckedDate(DigitsToInt(SubSeq(s, 1, 4)), DigitsToInt(SubSeq(s, 6, 7)),
                     DigitsToInt(SubSeq(s, 9, 10)))
    ELSE IF Len(s) = 10 /\ s[3] = "/" /\ s[6] = "/" /\ AllDigits(SubSeq(s, 1, 2))
            /\ AllDigits(SubSeq(s, 4, 5)) /\ AllDigits(SubSeq(s, 7, 10))
    THEN CheckedDate(DigitsToInt(SubSeq(s, 7, 10)), DigitsToInt(SubSeq(s, 1, 2)),
                     DigitsToInt(SubSeq(s, 4, 5)))
    ELSE IF Len(s) = 4 /\ AllDigits(s)
    THEN CheckedDate(DigitsToInt(s), 1, 1)
    ELSE NaN

\* pd.to_datetime(errors="coerce") on one element
to_datetime(c) ==
    CASE c.t = "date" -> c
      [] c.t = "str" -> ParseDate(Strip(c.s))
      [] OTHER -> NaN

---------------------------------------------------------------------------
(* Program constants.                                                      *)
OVERWEIGHT_USERS == {User1, User2, User3, User4}

\* a critical set that leaves null_date out
CRITICAL_ERRORS_without_null_date ==
    { "null_weight", "future_date", "duplicate_primary_reference",
      "null_primary_reference", "empty_primary_reference" }

CRITICAL_ERRORS ==
    { "null_weight", "null_date", "future_date", "duplicate_primary_reference",
      "null_primary_reference", "empty_primary_reference" }

valid_status == {sBooked, sInTransit}
valid_states == us_states \cup canadian_provinces
OverweightLimit == 49000
IndexOffset == 2
old_date_cutoff == MkDate(2020, 1, 1)

TextColumns == <<"Origin Name", "Dest Name", "Origin City", "Dest City">>

NoExc == [type |-> "none", msg |-> ""]
AttributeError == [type |-> "AttributeError", msg |-> "Can only use .str accessor with string values!"]
KeyError == [type |-> "KeyError", msg |-> "1"]
LoadError == [type |-> "FileNotFoundError", msg |-> "No such file or directory"]
Ok(d) == [df |-> d, exc |-> NoExc]
Raise(d, e) == [df |-> d, exc |-> e]

---------------------------------------------------------------------------
(* build_error: the defect of a mask over the Row Store.  The loader gives *)
(* the rows the index labels 0, 1, 2, ... and no cleaner changes them.     *)
IndexLabel(i) == i - 1

RECURSIVE MaskedIndices(_, _, _)
MaskedIndices(d, m, k) ==
    IF k = 0 THEN <<>>
    ELSE MaskedIndices(d, m, k - 1) \o (IF m[k] THEN <<IndexLabel(k) + IndexOffset>> ELSE <<>>)

RECURSIVE MaskSum(_, _)
MaskSum(m, k) == IF k = 0 THEN 0 ELSE MaskSum(m, k - 1) + (IF m[k] THEN 1 ELSE 0)

\* positions offset by one only (the header row forgotten)
build_error_offset_one(d, m) ==
    [count |-> MaskSum(m, Len(d)),
     indices |-> [k \in 1..Len(MaskedIndices(d, m, Len(d))) |-> MaskedIndices(d, m, Len(d))[k] - 1]]

build_error(d, m) ==
    [count |-> MaskSum(m, Len(d)), indices |-> MaskedIndices(d, m, Len(d))]

any(m) == \E i \in DOMAIN m : m[i]

\* errors[kind] = build_error(df, mask), done only when mask.any()
Record(errs, kind, d, m) ==
    IF any(m) THEN Append(errs, [error_type |-> kind, error_data |-> build_error(d, m)])
    ELSE errs

---------------------------------------------------------------------------
(* Cleaners.  Each returns the Row Store as it leaves it and the exception *)
(* it raised, if any; columns assigned before a raise stay assigned.       *)

clean_primary_reference(d) ==
    IF ~HasStrAccessor(d, "Primary Reference") THEN Raise(d, AttributeError)
    ELSE Ok(SetColumn(d, "Primary Reference",
                      [i \in Rows(d) |-> str_strip(d[i]["Primary Reference"])]))

clean_weight(d) ==
    LET isFloat == IsFloatColumn(d, "Weight")
        d1 == SetColumn(d, "Weight_raw", Column(d, "Weight"))
        d2 == SetColumn(d1, "Weight",
                        [i \in Rows(d) |-> str_replace(astype_str(d1[i]["Weight"], isFloat), ",")])
        d3 == SetColumn(d2, "Weight", [i \in Rows(d) |-> to_numeric(d2[i]["Weight"])])
    IN  Ok(d3)

clean_create_date(d) ==
    Ok(SetColumn(d, "Create Date", [i \in Rows(d) |-> to_datetime(d[i]["Create Date"])]))

clean_states(d) ==
    IF ~HasStrAccessor(d, "Origin State") THEN Raise(d, AttributeError)
    ELSE LET d1 == SetColumn(d, "Origin State",
                             [i \in Rows(d) |-> str_upper(str_strip(d[i]["Origin State"]))])
         IN  IF ~HasStrAccessor(d1, "Dest State") THEN Raise(d1, AttributeError)
             ELSE Ok(SetColumn(d1, "Dest State",
                               [i \in Rows(d) |-> str_upper(str_strip(d1[i]["Dest State"]))]))

\* Series.str.split("-", expand=True): one frame column per part position; a
\* row with fewer parts, or with no text, holds a missing value there
str_split(d, col) == [i \in Rows(d) |-> IF d[i][col].t = "str" THEN Split(d[i][col].s, "-") ELSE <<>>]
SplitWidth(parts) == CHOOSE w \in 0..50 :
                        /\ \A i \in DOMAIN parts : Len(parts[i]) <= w
                        /\ \E j \in DOMAIN parts : Len(parts[j]) = w
SplitColumn(parts, k) == [i \in DOMAIN parts |-> IF Len(parts[i]) > k THEN Str(parts[i][k + 1]) ELSE NaN]

\* the two assignments made from one range column
SplitRange(d, col, startCol, endCol) ==
    IF ~HasStrAccessor(d, col) THEN Raise(d, AttributeError)
    ELSE LET split == str_split(d, col)
             d1 == SetColumn(d, startCol, [i \in Rows(d) |-> to_datetime(SplitColumn(split, 0)[i])])
         IN  IF SplitWidth(split) < 2 THEN Raise(d1, KeyError)
             ELSE Ok(SetColumn(d1, endCol, [i \in Rows(d) |-> to_datetime(SplitColumn(split, 1)[i])]))

clean_ship_and_delivery_ranges(d) ==
    LET ship == SplitRange(d, "Target Ship (Range)", "Ship Start", "Ship End")
    IN  IF ship.exc # NoExc THEN ship
        ELSE SplitRange(ship.df, "Target Delivery (Range)", "Delivery Start", "Delivery End")

RECURSIVE CleanTextFrom(_, _)
CleanTextFrom(d, k) ==
    IF k > Len(TextColumns) THEN d
    ELSE CleanTextFrom(
            SetColumn(d, TextColumns[k],
                      [i \in Rows(d) |-> str_upper(str_strip(astype_str(d[i][TextColumns[k]], TRUE)))]),
            k + 1)

clean_text_columns(d) == Ok(CleanTextFrom(d, 1))

---------------------------------------------------------------------------
(* Validators.  Each returns its errors dict as the sequence of its items  *)
(* in insertion order: [error_type, error_data].                           *)

\* Series.duplicated(keep=False): every row whose value another row holds
\* too; pandas counts missing values as equal to one another
duplicated(d, col) == [i \in Rows(d) |-> \E j \in Rows(d) : j # i /\ d[j][col] = d[i][col]]

validate_primary_reference(d) ==
    LET null_mask == [i \in Rows(d) |-> isnull(d[i]["Primary Reference"])]
        empty_mask == [i \in Rows(d) |-> d[i]["Primary Reference"] = Str(<<>>)]
        duplicate_mask == duplicated(d, "Primary Reference")
        e1 == Record(<<>>, "null_primary_reference", d, null_mask)
        e2 == Record(e1, "empty_primary_reference", d, empty_mask)
    IN  Record(e2, "duplicate_primary_reference", d, duplicate_mask)

isin(c, values) == c.t = "str" /\ c.s \in values

validate_status(d) ==
    LET invalid_mask == [i \in Rows(d) |-> ~isin(d[i]["Status"], valid_status)]
    IN  Record(<<>>, "invalid_status", d, invalid_mask)

None == [count |-> -1, indices |-> <<>>]

\* the limit compared strictly (> where the code has >=)
validate_overweight_strict(d, overweight_users) ==
    LET m == [i \in Rows(d) |->
                /\ d[i]["Weight"].t = "num" /\ d[i]["Weight"].n > OverweightLimit
                /\ ~isin(str_lower(str_strip(astype_str(d[i]["Create By"], TRUE))), overweight_users)]
    IN  IF any(m) THEN build_error(d, m) ELSE None

validate_overweight(d, overweight_users) ==
    LET m == [i \in Rows(d) |->
                /\ d[i]["Weight"].t = "num" /\ d[i]["Weight"].n >= OverweightLimit
                /\ ~isin(str_lower(str_strip(astype_str(d[i]["Create By"], TRUE))), overweight_users)]
    IN  IF any(m) THEN build_error(d, m) ELSE None

validate_weight(d) ==
    LET null_mask == [i \in Rows(d) |-> isnull(d[i]["Weight"])]
        invalid_format_mask == [i \in Rows(d) |-> notnull(d[i]["Weight_raw"]) /\ isnull(d[i]["Weight"])]
        non_positive_mask == [i \in Rows(d) |-> d[i]["Weight"].t = "num" /\ d[i]["Weight"].n <= 0]
        e1 == Record(<<>>, "null_weight", d, null_mask)
        e2 == Record(e1, "invalid_weight_format", d, invalid_format_mask)
        e3 == Record(e2, "non_positive", d, non_positive_mask)
        overweight_error == validate_overweight(d, OVERWEIGHT_USERS)
    IN  IF overweight_error # None
        THEN Append(e3, [error_type |-> "overweight", error_data |-> overweight_error])
        ELSE e3

\* now: the day datetime.now() falls on; the dates of the table are whole days
validate_create_date(d, now) ==
    LET null_mask == [i \in Rows(d) |-> isnull(d[i]["Create Date"])]
        future_date_mask == [i \in Rows(d) |-> d[i]["Create Date"].t = "date" /\ d[i]["Create Date"].n > now]
        old_date_mask == [i \in Rows(d) |->
                            d[i]["Create Date"].t = "date" /\ d[i]["Create Date"].n < old_date_cutoff]
        e1 == Record(<<>>, "null_date", d, null_mask)
        e2 == Record(e1, "future_date", d, future_date_mask)
    IN  Record(e2, "too_old", d, old_date_mask)

\* the length check skipping the rows with no code
validate_states_length_of_text_only(d) ==
    LET null_origin_mask == [i \in Rows(d) |-> isnull(d[i]["Origin State"])]
        null_dest_mask == [i \in Rows(d) |-> isnull(d[i]["Dest State"])]
        invalid_origin_mask == [i \in Rows(d) |-> ~isin(d[i]["Origin State"], valid_states)]
        invalid_dest_mask == [i \in Rows(d) |-> ~isin(d[i]["Dest State"], valid_states)]
        bad_origin_length == [i \in Rows(d) |->
                                notnull(d[i]["Origin State"]) /\ str_len(d[i]["Origin State"]) # 2]
        bad_dest_length == [i \in Rows(d) |->
                                notnull(d[i]["Dest State"]) /\ str_len(d[i]["Dest State"]) # 2]
        e1 == Record(<<>>, "origin_null", d, null_origin_mask)
        e2 == Record(e1, "dest_null", d, null_dest_mask)
        e3 == Record(e2, "origin_invalid", d, invalid_origin_mask)
        e4 == Record(e3, "dest_invalid", d, invalid_dest_mask)
        e5 == Record(e4, "origin_length", d, bad_origin_length)
    IN  Record(e5, "dest_length", d, bad_dest_length)

validate_states(d) ==
    LET null_origin_mask == [i \in Rows(d) |-> isnull(d[i]["Origin State"])]
        null_dest_mask == [i \in Rows(d) |-> isnull(d[i]["Dest State"])]
        invalid_origin_mask == [i \in Rows(d) |-> ~isin(d[i]["Origin State"], valid_states)]
        invalid_dest_mask == [i \in Rows(d) |-> ~isin(d[i]["Dest State"], valid_states)]
        bad_origin_length == [i \in Rows(d) |-> str_len(d[i]["Origin State"]) # 2]
        bad_dest_length == [i \in Rows(d) |-> str_len(d[i]["Dest State"]) # 2]
        e1 == Record(<<>>, "origin_null", d, null_origin_mask)
        e2 == Record(e1, "dest_null", d, null_dest_mask)
        e3 == Record(e2, "origin_invalid", d, invalid_origin_mask)
        e4 == Record(e3, "dest_invalid", d, invalid_dest_mask)
        e5 == Record(e4, "origin_length", d, bad_origin_length)
    IN  Record(e5, "dest_length", d, bad_dest_length)

\* a comparison of two datetime cells; a missing value compares False
After(a, b) == a.t = "date" /\ b.t = "date" /\ a.n > b.n

validate_ship_and_delivery_ranges(d) ==
    LET null_ship_mask == [i \in Rows(d) |-> isnull(d[i]["Ship Start"]) \/ isnull(d[i]["Ship End"])]
        null_delivery_mask == [i \in Rows(d) |->
                                 isnull(d[i]["Delivery Start"]) \/ isnull(d[i]["Delivery End"])]
        ship_order_invalid == [i \in Rows(d) |-> After(d[i]["Ship Start"], d[i]["Ship End"])]
        delivery_order_invalid == [i \in Rows(d) |-> After(d[i]["Delivery Start"], d[i]["Delivery End"])]
        delivery_before_shipping == [i \in Rows(d) |-> After(d[i]["Ship Start"], d[i]["Delivery Start"])]
        e1 == Record(<<>>, "null_ship_dates", d, null_ship_mask)
        e2 == Record(e1, "null_delivery_dates", d, null_delivery_mask)
        e3 == Record(e2, "ship_start_after_end", d, ship_order_invalid)
        e4 == Record(e3, "delivery_start_after_end", d, delivery_order_invalid)
    IN  Record(e4, "delivery_before_shipping", d, delivery_before_shipping)

---------------------------------------------------------------------------
(* The Policy Gate.                                                        *)

RECURSIVE Join(_, _)
Join(strs, sep) ==
    IF strs = <<>> THEN ""
    ELSE IF Len(strs) = 1 THEN strs[1]
    ELSE strs[1] \o sep \o Join(Tail(strs), sep)

\* str() of a Python list of ints
ListText(xs) == "[" \o Join([i \in 1..Len(xs) |-> ToString(xs[i])], ", ") \o "]"

LogRecord(name, level, message) == [name |-> name, level |-> level, message |-> message]

DiagnosticMessage(domain, item) ==
    "[" \o domain \o "] " \o item.error_type \o " - rows affected: "
        \o ToString(item.error_data.count) \o ", indices: " \o ListText(item.error_data.indices)

CriticalText(c) == c[1] \o "." \o c[2] \o " (" \o ToString(c[3]) \o " rows)"

\* the critical triples collected newest first
RECURSIVE ScanErrors_newest_first(_, _, _)
ScanErrors_newest_first(domain, errs, acc) ==
    IF errs = <<>> THEN acc
    ELSE LET item == Head(errs)
             logged == Append(acc.log, LogRecord("__main__", "ERROR", DiagnosticMessage(domain, item)))
             found == IF item.error_type \in CRITICAL_ERRORS
                      THEN <<<<domain, item.error_type, item.error_data.count>>>> \o acc.critical_found
                      ELSE acc.critical_found
         IN  ScanErrors_newest_first(domain, Tail(errs), [log |-> logged, critical_found |-> found])

\* only the critical defects logged
RECURSIVE ScanErrors_log_critical_only(_, _, _)
ScanErrors_log_critical_only(domain, errs, acc) ==
    IF errs = <<>> THEN acc
    ELSE LET item == Head(errs)
             isCritical == item.error_type \in CRITICAL_ERRORS
             logged == IF isCritical
                       THEN Append(acc.log,
                                   LogRecord("__main__", "ERROR", DiagnosticMessage(domain, item)))
                       ELSE acc.log
             found == IF isCritical
                      THEN Append(acc.critical_found,
                                  <<domain, item.error_type, item.error_data.count>>)
                      ELSE acc.critical_found
         IN  ScanErrors_log_critical_only(domain, Tail(errs),
                                          [log |-> logged, critical_found |-> found])

\* the inner loop over one domain's items, then the outer loop over the domains:
\* acc carries the log records and the critical triples appended so far
RECURSIVE ScanErrors(_, _, _)
ScanErrors(domain, errs, acc) ==
    IF errs = <<>> THEN acc
    ELSE LET item == Head(errs)
             logged == Append(acc.log, LogRecord("__main__", "ERROR", DiagnosticMessage(domain, item)))
             found == IF item.error_type \in CRITICAL_ERRORS
                      THEN Append(acc.critical_found,
                                  <<domain, item.error_type, item.error_data.count>>)
                      ELSE acc.critical_found
         IN  ScanErrors(domain, Tail(errs), [log |-> logged, critical_found |-> found])

RECURSIVE ScanDomains(_, _)
ScanDomains(report, acc) ==
    IF report = <<>> THEN acc
    ELSE ScanDomains(Tail(report), ScanErrors(Head(report).domain, Head(report).errors, acc))

PolicyMessage(found) ==
    "Pipeline failed due to critical errors: "
        \o Join([i \in 1..Len(found) |-> CriticalText(found[i])], ", ")

\* returns what the call appended to the log, its critical_found, and the
\* ValueError it raised (NoExc when it returned normally)
enforce_policy(report) ==
    LET scan == ScanDomains(report, [log |-> <<>>, critical_found |-> <<>>])
    IN  [log |-> scan.log,
         critical_found |-> scan.critical_found,
         exc |-> IF scan.critical_found # <<>>
                 THEN [type |-> "ValueError", msg |-> PolicyMessage(scan.critical_found)]
                 ELSE NoExc]

---------------------------------------------------------------------------
(* The tables the loader can hand over: a clean base table of n rows with  *)
(* up to two cells replaced by a defective or differently written value.   *)

Columns ==
    { "Primary Reference", "Status", "Weight", "Create By", "Create Date",
      "Origin State", "Dest State", "Origin Name", "Dest Name", "Origin City",
      "Dest City", "Target Ship (Range)", "Target Delivery (Range)" }
DerivedColumns == {"Weight_raw", "Ship Start", "Ship End", "Delivery Start", "Delivery End"}

RefOf(i) == <<"R">> \o IntToDigits(i)

BaseRow(i) ==
    [c \in Columns \cup DerivedColumns |->
        CASE c = "Primary Reference" -> Str(RefOf(i))
          [] c = "Status" -> Str(sBooked)
          [] c = "Weight" -> Str(inWeightOk)
          [] c = "Create By" -> Str(inCreatorPlain)
          [] c = "Create Date" -> Date(MkDate(2024, 6, 15))
          [] c = "Origin State" -> Str(inStateTX)
          [] c = "Dest State" -> Str(inStateON)
          [] c \in {"Origin Name", "Dest Name", "Origin City", "Dest City"} -> Str(inName)
          [] c = "Target Ship (Range)" -> Str(inShipOk)
          [] c = "Target Delivery (Range)" -> Str(inDeliveryOk)
          [] OTHER -> Absent]

BaseTable(n) == [i \in 1..n |-> BaseRow(i)]

Alternatives ==
    { <<"Primary Reference", NaN>>,
      <<"Primary Reference", Str(<<" ">> \o RefOf(1) \o <<" ">>)>>,
      <<"Primary Reference", Str(inRefBlank)>>,
      <<"Status", Str(sInTransit)>>, <<"Status", Str(sCancelled)>>, <<"Status", NaN>>,
      <<"Weight", Str(inWeightHeavy)>>, <<"Weight", Str(inWeightLimit)>>,
      <<"Weight", Str(inWeightBad)>>, <<"Weight", NaN>>, <<"Weight", Num(0)>>,
      <<"Create By", Str(inCreatorExempt)>>, <<"Create By", NaN>>,
      <<"Create Date", NaN>>, <<"Create Date", Str(inDateBad)>>,
      <<"Create Date", Date(MkDate(2027, 3, 1))>>, <<"Create Date", Date(MkDate(2019, 12, 31))>>,
      <<"Origin State", NaN>>, <<"Origin State", Str(inStatePaddedLower)>>,
      <<"Origin State", Str(inStateUnknown)>>, <<"Origin State", Str(inStateLong)>>,
      <<"Dest State", NaN>>, <<"Dest State", Str(inStateUnknown)>>,
      <<"Origin Name", NaN>>, <<"Dest City", NaN>>,
      <<"Target Ship (Range)", Str(inShipIso)>>, <<"Target Ship (Range)", Str(inShipReversed)>>,
      <<"Target Ship (Range)", Str(inRangeNoDash)>>, <<"Target Ship (Range)", NaN>>,
      <<"Target Delivery (Range)", Str(inDeliveryEarly)>>,
      <<"Target Delivery (Range)", Str(inRangeNoDash)>>, <<"Target Delivery (Range)", NaN>> }

Edits(n) == {[row |-> r, col |-> a[1], val |-> a[2]] : r \in 1..n, a \in Alternatives}
ApplyEdit(t, e) == [t EXCEPT ![e.row][e.col] = e.val]

\* the days datetime.now() is taken to fall on
Nows == {MkDate(2025, 1, 1), MkDate(2030, 1, 1)}

Domains == {"primary_reference", "weight", "create_date", "status", "states", "ranges"}
NoErrors == [x \in {} |-> <<>>]

---------------------------------------------------------------------------
(* main: one action per call it makes.                                     *)

Init ==
    /\ df = <<>>
    /\ pc = "start"
    /\ errors = NoErrors
    /\ all_errors = <<>>
    /\ critical_found = <<>>
    /\ log = <<>>
    /\ exc = NoExc
    /\ prev = <<>>
    /\ applied = <<>>
    /\ mask = <<>>
    /\ built = None

harness == <<prev, applied, mask, built>>

\* logging.info("Starting ..."), then load_data returns the Row Store
Load ==
    /\ pc = "start"
    /\ \E n \in 1..MaxRows : \E e1, e2 \in Edits(n) :
          df' = ApplyEdit(ApplyEdit(BaseTable(n), e1), e2)
    /\ log' = Append(log, LogRecord("root", "INFO", "Starting pipeline ETL process."))
    /\ pc' = "clean_primary_reference"
    /\ UNCHANGED <<errors, all_errors, critical_found, exc, harness>>

\* load_data raises (missing or unreadable file)
LoadFails ==
    /\ pc = "start"
    /\ log' = Append(log, LogRecord("root", "INFO", "Starting pipeline ETL process."))
    /\ exc' = LoadError
    /\ pc' = "except"
    /\ UNCHANGED <<df, errors, all_errors, critical_found, harness>>

\* df = clean_x(df): on a raise control passes to the except clause
CleanStep(here, result, next) ==
    /\ pc = here
    /\ df' = result.df
    /\ exc' = result.exc
    /\ pc' = IF result.exc = NoExc THEN next ELSE "except"
    /\ UNCHANGED <<errors, all_errors, critical_found, log, harness>>

\* x_errors = validate_x(df)
ValidateStep(here, domain, errs, next) ==
    /\ pc = here
    /\ errors' = (domain :> errs) @@ errors
    /\ pc' = next
    /\ UNCHANGED <<df, all_errors, critical_found, log, exc, harness>>

CleanPrimaryReference ==
    CleanStep("clean_primary_reference", clean_primary_reference(df), "validate_primary_reference")
ValidatePrimaryReference ==
    ValidateStep("validate_primary_reference", "primary_reference",
                 validate_primary_reference(df), "clean_weight")
CleanWeight == CleanStep("clean_weight", clean_weight(df), "validate_weight")
ValidateWeight == ValidateStep("validate_weight", "weight", validate_weight(df), "clean_create_date")
CleanCreateDate == CleanStep("clean_create_date", clean_create_date(df), "validate_create_date")
ValidateCreateDate ==
    \E now \in Nows :
        ValidateStep("validate_create_date", "create_date", validate_create_date(df, now),
                     "validate_status")
ValidateStatus == ValidateStep("validate_status", "status", validate_status(df), "clean_states")
CleanStates == CleanStep("clean_states", clean_states(df), "validate_states")
ValidateStates ==
    ValidateStep("validate_states", "states", validate_states(df), "clean_ship_and_delivery_ranges")
CleanRanges ==
    CleanStep("clean_ship_and_delivery_ranges", clean_ship_and_delivery_ranges(df),
              "validate_ship_and_delivery_ranges")
ValidateRanges ==
    ValidateStep("validate_ship_and_delivery_ranges", "ranges",
                 validate_ship_and_delivery_ranges(df), "clean_text_columns")
CleanTextColumns == CleanStep("clean_text_columns", clean_text_columns(df), "enforce_policy")

\* the all_errors dict literal of main, in its key order
Aggregate(e) ==
    << [domain |-> "primary_reference", errors |-> e["primary_reference"]],
       [domain |-> "weight", errors |-> e["weight"]],
       [domain |-> "create_date", errors |-> e["create_date"]],
       [domain |-> "status", errors |-> e["status"]],
       [domain |-> "states", errors |-> e["states"]],
       [domain |-> "ranges", errors |-> e["ranges"]] >>

\* all_errors = {...}; enforce_policy(all_errors)
EnforcePolicy ==
    /\ pc = "enforce_policy"
    /\ all_errors' = Aggregate(errors)
    /\ LET r == enforce_policy(Aggregate(errors))
       IN  /\ log' = log \o r.log
           /\ critical_found' = r.critical_found
           /\ exc' = r.exc
           /\ pc' = IF r.exc = NoExc THEN "finish" ELSE "except"
    /\ UNCHANGED <<df, errors, harness>>

\* logging.info("Pipeline finished successfully.")
Finish ==
    /\ pc = "finish"
    /\ log' = Append(log, LogRecord("root", "INFO", "Pipeline finished successfully."))
    /\ pc' = "done"
    /\ UNCHANGED <<df, errors, all_errors, critical_found, exc, harness>>

\* except Exception as e: logging.error(f"Pipeline failed: {e}"); raise
Except ==
    /\ pc = "except"
    /\ log' = Append(log, LogRecord("root", "ERROR", "Pipeline failed: " \o exc.msg))
    /\ pc' = "raised"
    /\ UNCHANGED <<df, errors, all_errors, critical_found, exc, harness>>

Next ==
    \/ Load
    \/ LoadFails
    \/ CleanPrimaryReference
    \/ ValidatePrimaryReference
    \/ CleanWeight
    \/ ValidateWeight
    \/ CleanCreateDate
    \/ ValidateCreateDate
    \/ ValidateStatus
    \/ CleanStates
    \/ ValidateStates
    \/ CleanRanges
    \/ ValidateRanges
    \/ CleanTextColumns
    \/ EnforcePolicy
    \/ Finish
    \/ Except

Spec == Init /\ [][Next]_vars

---------------------------------------------------------------------------
(* Unit specification of the cleaners: any cleaner applied to a loaded     *)
(* table, then any cleaner applied to the result.                          *)

InitClean ==
    /\ \E n \in 1..MaxRows : \E e \in Edits(n) : df = ApplyEdit(BaseTable(n), e)
    /\ prev = df
    /\ pc = "cleaners"
    /\ applied = <<>>
    /\ errors = NoErrors
    /\ all_errors = <<>>
    /\ critical_found = <<>>
    /\ log = <<>>
    /\ exc = NoExc
    /\ mask = <<>>
    /\ built = None

ApplyCleaner(name, result) ==
    /\ pc = "cleaners"
    /\ Len(applied) < MaxApply
    /\ exc = NoExc
    /\ prev' = df
    /\ df' = result.df
    /\ exc' = result.exc
    /\ applied' = Append(applied, name)
    /\ UNCHANGED <<pc, errors, all_errors, critical_found, log, mask, built>>

ApplyCleanPrimaryReference == ApplyCleaner("clean_primary_reference", clean_primary_reference(df))
ApplyCleanWeight == ApplyCleaner("clean_weight", clean_weight(df))
ApplyCleanCreateDate == ApplyCleaner("clean_create_date", clean_create_date(df))
ApplyCleanStates == ApplyCleaner("clean_states", clean_states(df))
ApplyCleanRanges ==
    ApplyCleaner("clean_ship_and_delivery_ranges", clean_ship_and_delivery_ranges(df))
ApplyCleanTextColumns == ApplyCleaner("clean_text_columns", clean_text_columns(df))

NextClean ==
    \/ ApplyCleanPrimaryReference
    \/ ApplyCleanWeight
    \/ ApplyCleanCreateDate
    \/ ApplyCleanStates
    \/ ApplyCleanRanges
    \/ ApplyCleanTextColumns

SpecClean == InitClean /\ [][NextClean]_vars

---------------------------------------------------------------------------
(* Unit specification of build_error: every mask over a table of up to     *)
(* MaxMaskRows rows.                                                       *)

InitBuild ==
    /\ \E n \in 1..MaxMaskRows :
          /\ df = BaseTable(n)
          /\ mask \in [1..n -> BOOLEAN]
    /\ built = None
    /\ pc = "build_error"
    /\ prev = <<>>
    /\ applied = <<>>
    /\ errors = NoErrors
    /\ all_errors = <<>>
    /\ critical_found = <<>>
    /\ log = <<>>
    /\ exc = NoExc

BuildError ==
    /\ pc = "build_error"
    /\ built' = build_error(df, mask)
    /\ pc' = "built"
    /\ UNCHANGED <<df, errors, all_errors, critical_found, log, exc, prev, applied, mask>>

NextBuild == BuildError

SpecBuild == InitBuild /\ [][NextBuild]_vars

---------------------------------------------------------------------------
(* Properties.                                                             *)

GateRan == all_errors # <<>>
GateRaised == GateRan /\ exc.type = "ValueError"
MainEnded == pc \in {"done", "raised"}

\* the (domain position, item position) pairs of the Error Report
ReportItems ==
    UNION {{<<i, j>> : j \in 1..Len(all_errors[i].errors)} : i \in 1..Len(all_errors)}
ReportItem(p) == all_errors[p[1]].errors[p[2]]
ReportTriple(p) ==
    <<all_errors[p[1]].domain, ReportItem(p).error_type, ReportItem(p).error_data.count>>

\* the row positions (as reported) of one defect kind of a validated domain
IndicesOf(domain, kind) ==
    IF domain \notin DOMAIN errors THEN {}
    ELSE UNION {{errors[domain][j].error_data.indices[k] :
                    k \in 1..Len(errors[domain][j].error_data.indices)} :
                 j \in {x \in 1..Len(errors[domain]) : errors[domain][x].error_type = kind}}
Reported(domain, kind, i) == (i - 1) + 2 \in IndicesOf(domain, kind)

CriticalKinds ==
    { "null_weight", "null_date", "future_date", "duplicate_primary_reference",
      "null_primary_reference", "empty_primary_reference" }

\* C1: once enforce_policy has been called on a report, it has raised the
\* pipeline failure if and only if some defect kind of some domain of the
\* report is in the critical set; with advisory kinds only, or none, it
\* returned normally.
C1_GateRaisesIffCritical ==
    GateRan =>
        /\ GateRaised <=> (\E p \in ReportItems : ReportItem(p).error_type \in CriticalKinds)
        /\ (~GateRaised) <=> (exc = NoExc /\ pc \in {"finish", "done"})

C1_Witness ==
    /\ GateRaised
    /\ exc.msg = "Pipeline failed due to critical errors: weight.null_weight (1 rows)"
    /\ \E p \in ReportItems : ReportItem(p).error_type \notin CriticalKinds

C2_TripleText(t) == t[1] \o "." \o t[2] \o " (" \o ToString(t[3]) \o " rows)"
C2_Before(p, q) == p[1] < q[1] \/ (p[1] = q[1] /\ p[2] < q[2])

\* C2: when enforce_policy raises, its message is the comma-joined list of
\* 'domain.kind (count rows)' for exactly the critical triples of the
\* report, each once, no advisory one, in traversal order (domains in report
\* order, kinds in each domain's order); nothing else is in the message.
C2_MessageListsCriticalTriples ==
    GateRaised =>
        LET crit == {p \in ReportItems : ReportItem(p).error_type \in CriticalKinds}
            n == Len(critical_found)
        IN  /\ n = Cardinality(crit)
            /\ \A p \in crit :
                  Cardinality({k \in 1..n : critical_found[k] = ReportTriple(p)}) = 1
            /\ \A k \in 1..n : \E p \in crit : critical_found[k] = ReportTriple(p)
            /\ \A p, q \in crit :
                  C2_Before(p, q) =>
                      \E k1, k2 \in 1..n :
                          /\ k1 < k2
                          /\ critical_found[k1] = ReportTriple(p)
                          /\ critical_found[k2] = ReportTriple(q)
            /\ exc.msg = "Pipeline failed due to critical errors: "
                            \o Join([k \in 1..n |-> C2_TripleText(critical_found[k])], ", ")

C2_Witness ==
    /\ GateRaised
    /\ Len(critical_found) = 2
    /\ critical_found[1][1] # critical_found[2][1]
    /\ \E p \in ReportItems : ReportItem(p).error_type \notin CriticalKinds

\* C3: in every run of main whose load succeeds, whatever the rows hold, all
\* six validators run before the pipeline can fail, and the only failure is
\* the one enforce_policy raises after the last validator.
C3_ValidatorChainNeverInterrupted ==
    (pc \in {"except", "raised"} /\ exc # LoadError) =>
        /\ DOMAIN errors = Domains
        /\ GateRaised

\* C4: every cleaner is idempotent: applied to its own result it leaves
\* every column of the Row Store unchanged, the shadow and derived columns
\* included.
C4_CleanersIdempotent ==
    (/\ Len(applied) >= 2
     /\ applied[Len(applied)] = applied[Len(applied) - 1]
     /\ exc = NoExc) => df = prev

\* C5: the position list of a defect built from a mask is exactly the rows
\* where the mask holds, each as its 0-based position plus 2, in row order,
\* and count is the length of the list (5 rows with positions 2 and 4
\* violating give [4, 6]).
C5_PositionsAreMaskedRowsPlusTwo ==
    pc = "built" =>
        LET idx == built.indices
        IN  /\ \A k \in 1..Len(idx) : idx[k] - 2 \in 0..(Len(df) - 1) /\ mask[(idx[k] - 2) + 1]
            /\ \A i \in 1..Len(df) : mask[i] => \E k \in 1..Len(idx) : idx[k] = (i - 1) + 2
            /\ \A k \in 1..(Len(idx) - 1) : idx[k] < idx[k + 1]
            /\ built.count = Len(idx)
            /\ (Len(df) = 5 /\ mask = <<FALSE, FALSE, TRUE, FALSE, TRUE>>) => idx = <<4, 6>>

C5_Witness ==
    /\ pc = "built"
    /\ Len(df) = 5
    /\ mask = <<FALSE, FALSE, TRUE, FALSE, TRUE>>
    /\ built = [count |-> 2, indices |-> <<4, 6>>]

\* C6: a row whose 'Target Ship (Range)' is "2024-01-10 - 2024-01-05" gets
\* Ship Start 2024-01-10 and Ship End 2024-01-05 from the range cleaner, and
\* the range validator reports it under ship_start_after_end and not under
\* null_ship_dates.
C6_IsoRangeStartAfterEnd ==
    \A i \in 1..Len(df) :
        (df[i]["Target Ship (Range)"] = Str(inShipIso) /\ "ranges" \in DOMAIN errors) =>
            /\ df[i]["Ship Start"] = Date(MkDate(2024, 1, 10))
            /\ df[i]["Ship End"] = Date(MkDate(2024, 1, 5))
            /\ Reported("ranges", "ship_start_after_end", i)
            /\ ~Reported("ranges", "null_ship_dates", i)

\* C7: after the identifier cleaner, duplicate_primary_reference lists
\* exactly the rows whose identifier value also occurs in another row, every
\* occurrence; rows with a missing identifier hold no value and are listed
\* under null_primary_reference, not as duplicates of one another.
C7_DuplicatesAreRepeatedValues ==
    "primary_reference" \in DOMAIN errors =>
        \A i \in 1..Len(df) :
            /\ Reported("primary_reference", "duplicate_primary_reference", i) <=>
                  /\ df[i]["Primary Reference"].t = "str"
                  /\ \E j \in 1..Len(df) :
                        j # i /\ df[j]["Primary Reference"] = df[i]["Primary Reference"]
            /\ isnull(df[i]["Primary Reference"]) =>
                  Reported("primary_reference", "null_primary_reference", i)

C8_Exempt == {User1, User2, User3, User4}

\* C8: after the weight cleaner, a row is reported overweight if and only if
\* its cleaned weight is at least 49000 and its creator, trimmed and
\* lower-cased, is not one of the 4 exempt identities; "49,500" cleans to
\* 49500 and a row with a missing cleaned weight is never overweight.
C8_OverweightRule ==
    "weight" \in DOMAIN errors =>
        \A i \in 1..Len(df) :
            LET w == df[i]["Weight"]
                by == df[i]["Create By"]
                who == IF by.t = "str" THEN Lower(Strip(by.s)) ELSE sNanText
            IN  /\ Reported("weight", "overweight", i) <=>
                      (w.t = "num" /\ w.n >= 49000 /\ who \notin C8_Exempt)
                /\ df[i]["Weight_raw"] = Str(inWeightHeavy) => w = Num(49500)
                /\ isnull(w) => ~Reported("weight", "overweight", i)
                /\ (w = Num(49500) /\ by = Str(inCreatorPlain)) => Reported("weight", "overweight", i)
                /\ (w = Num(49500) /\ by = Str(inCreatorExempt)) => ~Reported("weight", "overweight", i)

C8_Witness ==
    /\ "weight" \in DOMAIN errors
    /\ \E i \in 1..Len(df) :
          /\ df[i]["Weight_raw"] = Str(inWeightHeavy)
          /\ df[i]["Weight"] = Num(49500)
          /\ df[i]["Create By"] = Str(inCreatorPlain)
          /\ Reported("weight", "overweight", i)
    /\ \E j \in 1..Len(df) :
          /\ df[j]["Weight_raw"] = Str(inWeightLimit)
          /\ Reported("weight", "overweight", j)

C9_StartRecord == LogRecord("root", "INFO", "Starting pipeline ETL process.")
C9_SuccessRecord == LogRecord("root", "INFO", "Pipeline finished successfully.")
C9_Diagnostics == {k \in 1..Len(log) : log[k].name = "__main__"}
C9_Terminals == {k \in 1..Len(log) : log[k].name = "root" /\ log[k] # C9_StartRecord}
C9_DiagnosticText(p) ==
    "[" \o all_errors[p[1]].domain \o "] " \o ReportItem(p).error_type
        \o " - rows affected: " \o ToString(ReportItem(p).error_data.count)
        \o ", indices: " \o ListText(ReportItem(p).error_data.indices)

\* C9: in every run of main the log receives exactly one diagnostic record
\* per (domain, defect kind) of the Error Report, critical or advisory,
\* also when the gate then fails, all before the terminal record; exactly
\* one terminal record follows: the success record if and only if the gate
\* returned normally, otherwise the failure record carrying the message of
\* the failure.  (A run that ends before the gate is called has no Error
\* Report and logs no diagnostic.)
C9_LogOfRun ==
    /\ Cardinality(C9_Diagnostics) = Cardinality(ReportItems)
    /\ \A p \in ReportItems :
          Cardinality({k \in C9_Diagnostics :
                          log[k] = LogRecord("__main__", "ERROR", C9_DiagnosticText(p))}) = 1
    /\ IF MainEnded
       THEN /\ C9_Terminals = {Len(log)}
            /\ log[Len(log)] = C9_SuccessRecord <=> (GateRan /\ exc = NoExc)
            /\ log[Len(log)] # C9_SuccessRecord =>
                  /\ exc # NoExc
                  /\ log[Len(log)] = LogRecord("root", "ERROR", "Pipeline failed: " \o exc.msg)
            /\ GateRaised => exc.msg = PolicyMessage(critical_found)
       ELSE C9_Terminals = {}

C9_Witness ==
    /\ pc = "raised"
    /\ GateRaised
    /\ \E p \in ReportItems : ReportItem(p).error_type \in CriticalKinds
    /\ \E p \in ReportItems : ReportItem(p).error_type \notin CriticalKinds
    /\ Len(log) = Cardinality(ReportItems) + 2

\* C10: in validate_states' output after clean_states the flagged rows are
\* nested, for the origin and for the destination column alike: every row
\* under *_null is under *_length, and every row under *_length is under
\* *_invalid; a missing code gives the row all three defects.
C10_StateDefectsNested ==
    "states" \in DOMAIN errors =>
        /\ IndicesOf("states", "origin_null") \subseteq IndicesOf("states", "origin_length")
        /\ IndicesOf("states", "origin_length") \subseteq IndicesOf("states", "origin_invalid")
        /\ IndicesOf("states", "dest_null") \subseteq IndicesOf("states", "dest_length")
        /\ IndicesOf("states", "dest_length") \subseteq IndicesOf("states", "dest_invalid")
        /\ \A i \in 1..Len(df) :
              /\ isnull(df[i]["Origin State"]) =>
                    /\ Reported("states", "origin_null", i)
                    /\ Reported("states", "origin_length", i)
                    /\ Reported("states", "origin_invalid", i)
              /\ isnull(df[i]["Dest State"]) =>
                    /\ Reported("states", "dest_null", i)
                    /\ Reported("states", "dest_length", i)
                    /\ Reported("states", "dest_invalid", i)

C10_Witness ==
    /\ "states" \in DOMAIN errors
    /\ \E i \in 1..Len(df) :
          /\ isnull(df[i]["Origin State"])
          /\ Reported("states", "origin_null", i)
          /\ Reported("states", "origin_length", i)
          /\ Reported("states", "origin_invalid", i)
    /\ \E j \in 1..Len(df) :
          /\ Reported("states", "dest_invalid", j)
          /\ ~Reported("states", "dest_length", j)

=============================================================================
